---- MODULE Spec2Model ----
(***************************************************************************)
(* Chess memory game backend: the Flask handlers of src/app.py             *)
(* (start_game, submit_answer, get_stats, get_positions_by_count), the     *)
(* board helpers (fen_to_board, calculate_score, get_differences) and the  *)
(* CSV loader of src/load_data.py, over the two tables chess_positions     *)
(* and game_sessions.                                                      *)
(*                                                                         *)
(* Python strings are sequences of one-character strings.  A JSON value    *)
(* is a record [t, n, s]: its type tag, its number (int, bool) and its     *)
(* characters (str).  A table is a sequence of rows whose index is the     *)
(* INTEGER PRIMARY KEY: the default store is SQLite (src/app.py:13),       *)
(* which gives a new row the largest rowid in the table plus one, and 1    *)
(* in an empty table.                                                      *)
(***************************************************************************)
EXTENDS Integers, Sequences, FiniteSets, TLC

VARIABLES positions, sessions, response, call, requests

vars == <<positions, sessions, response, call, requests>>

----------------------------------------------------------------------------
(* JSON values and Python strings *)

JInt(k) == [t |-> "int", n |-> k, s |-> <<>>]
JBool(k) == [t |-> "bool", n |-> k, s |-> <<>>]
JFloat(k) == [t |-> "float", n |-> k, s |-> <<>>]
JStr(str) == [t |-> "str", n |-> 0, s |-> str]
JNull == [t |-> "null", n |-> 0, s |-> <<>>]

Digits == <<"0", "1", "2", "3", "4", "5", "6", "7", "8", "9">>

\* str.isdigit() on one character
isdigit(c) == \E d \in 1..Len(Digits) : Digits[d] = c

\* int(char) for a digit character
DigitVal(c) == (CHOOSE d \in 1..Len(Digits) : Digits[d] = c) - 1

\* str(n) for 0 <= n <= 9
DigitChar(n) == Digits[n + 1]

Letters == <<"a", "b", "c", "d", "e", "f", "g", "h">>

\* chr(code) for the code points 97 ('a') .. 104 ('h')
chr(code) == Letters[code - 96]

Raise == [ok |-> FALSE, v |-> <<>>]
Return(x) == [ok |-> TRUE, v |-> x]

RECURSIVE LStrip(_)
LStrip(str) ==
    IF str # <<>> /\ Head(str) = " " THEN LStrip(Tail(str)) ELSE str

RECURSIVE RStrip(_)
RStrip(str) ==
    IF str # <<>> /\ str[Len(str)] = " "
    THEN RStrip(SubSeq(str, 1, Len(str) - 1))
    ELSE str

\* str.strip()
strip(str) == RStrip(LStrip(str))

\* the longest prefix of str holding no separator character
RECURSIVE TakeUntil(_, _)
TakeUntil(str, sep) ==
    IF str = <<>> \/ Head(str) = sep
    THEN <<>>
    ELSE <<Head(str)>> \o TakeUntil(Tail(str), sep)

\* str.split(): the whitespace-separated words, none of them empty
RECURSIVE split_ws(_)
split_ws(str) ==
    LET rest == LStrip(str)
        word == TakeUntil(rest, " ")
    IN  IF rest = <<>>
        THEN <<>>
        ELSE <<word>> \o split_ws(SubSeq(rest, Len(word) + 1, Len(rest)))

\* str.split(sep): the fields between separators, empty ones kept
RECURSIVE split_on(_, _)
split_on(str, sep) ==
    LET field == TakeUntil(str, sep)
    IN  IF Len(field) = Len(str)
        THEN <<field>>
        ELSE <<field>> \o split_on(SubSeq(str, Len(field) + 2, Len(str)), sep)

\* ['.'] * n
RECURSIVE Dots(_)
Dots(n) == IF n = 0 THEN <<>> ELSE <<".">> \o Dots(n - 1)

\* int(text) of the CSV field: optional blanks and sign around decimal digits
RECURSIVE DecimalValue(_, _)
DecimalValue(str, acc) ==
    IF str = <<>>
    THEN acc
    ELSE DecimalValue(Tail(str), 10 * acc + DigitVal(Head(str)))

int(text) ==
    LET body == strip(text)
        neg == body # <<>> /\ Head(body) = "-"
        digits == IF neg THEN Tail(body) ELSE body
    IN  IF digits # <<>> /\ \A k \in 1..Len(digits) : isdigit(digits[k])
        THEN Return(IF neg THEN 0 - DecimalValue(digits, 0)
                    ELSE DecimalValue(digits, 0))
        ELSE Raise

----------------------------------------------------------------------------
(* Board helpers, src/app.py:239-286 *)

BoardSize == 8

\* the inner loop of fen_to_board: one rank of the placement string
RECURSIVE board_row(_)
board_row(row) ==
    IF row = <<>>
    THEN <<>>
    ELSE IF isdigit(Head(row))
         THEN Dots(DigitVal(Head(row))) \o board_row(Tail(row))
         ELSE <<Head(row)>> \o board_row(Tail(row))

\* the outer loop of fen_to_board: board.append(board_row) for each rank
RECURSIVE board_rows(_)
board_rows(rows) ==
    IF rows = <<>>
    THEN <<>>
    ELSE <<board_row(Head(rows))>> \o board_rows(Tail(rows))

\* fen_to_board(fen): raises on a value that is no string (no .split) and on
\* a blank string (split()[0])
fen_to_board(fen) ==
    IF fen.t # "str"
    THEN Raise
    ELSE LET words == split_ws(fen.s)
         IN  IF words = <<>>
             THEN Raise
             ELSE Return(board_rows(split_on(words[1], "/")))

\* score_row without the test that the matching cell holds a piece
RECURSIVE score_row_counting_empty(_, _, _, _)
score_row_counting_empty(correct_row, user_row, j, score) ==
    IF j = BoardSize
    THEN Return(score)
    ELSE IF j >= Len(correct_row) \/ j >= Len(user_row)
    THEN Raise
    ELSE IF correct_row[j + 1] = user_row[j + 1]
    THEN score_row_counting_empty(correct_row, user_row, j + 1, score + 1)
    ELSE score_row_counting_empty(correct_row, user_row, j + 1, score)

\* the inner loop of calculate_score, for j in range(8), over row i of both
\* boards: row[j] raises IndexError when the row has no cell j
RECURSIVE score_row(_, _, _, _)
score_row(correct_row, user_row, j, score) ==
    IF j = BoardSize
    THEN Return(score)
    ELSE IF j >= Len(correct_row) \/ j >= Len(user_row)
    THEN Raise
    ELSE IF correct_row[j + 1] = user_row[j + 1] /\ correct_row[j + 1] # "."
    THEN score_row(correct_row, user_row, j + 1, score + 1)
    ELSE score_row(correct_row, user_row, j + 1, score)

\* the outer loop of calculate_score, for i in range(8): board[i] raises
\* IndexError when the board has no row i
RECURSIVE score_loop(_, _, _, _)
score_loop(correct_board, user_board, i, score) ==
    IF i = BoardSize
    THEN Return(score)
    ELSE IF i >= Len(correct_board) \/ i >= Len(user_board)
    THEN Raise
    ELSE LET row == score_row(correct_board[i + 1], user_board[i + 1], 0, score)
         IN  IF row.ok
             THEN score_loop(correct_board, user_board, i + 1, row.v)
             ELSE Raise

calculate_score(correct_fen, user_fen) ==
    LET correct_board == fen_to_board(correct_fen)
        user_board == fen_to_board(user_fen)
    IN  IF ~correct_board.ok \/ ~user_board.ok
        THEN Raise
        ELSE score_loop(correct_board.v, user_board.v, 0, 0)

\* square with row and column exchanged
square_transposed(i, j) == <<chr(97 + i), DigitChar(BoardSize - j)>>

\* f"{chr(97 + j)}{8 - i}"
square(i, j) == <<chr(97 + j), DigitChar(BoardSize - i)>>

\* the inner loop of get_differences over row i of both boards
RECURSIVE differences_row(_, _, _, _, _)
differences_row(correct_row, user_row, i, j, differences) ==
    IF j = BoardSize
    THEN Return(differences)
    ELSE IF j >= Len(correct_row) \/ j >= Len(user_row)
    THEN Raise
    ELSE IF correct_row[j + 1] # user_row[j + 1]
    THEN differences_row(correct_row, user_row, i, j + 1,
             Append(differences,
                    [square |-> square(i, j),
                     correct |-> correct_row[j + 1],
                     user |-> user_row[j + 1]]))
    ELSE differences_row(correct_row, user_row, i, j + 1, differences)

\* the outer loop of get_differences
RECURSIVE differences_loop(_, _, _, _)
differences_loop(correct_board, user_board, i, differences) ==
    IF i = BoardSize
    THEN Return(differences)
    ELSE IF i >= Len(correct_board) \/ i >= Len(user_board)
    THEN Raise
    ELSE LET row == differences_row(correct_board[i + 1], user_board[i + 1],
                                    i, 0, differences)
         IN  IF row.ok
             THEN differences_loop(correct_board, user_board, i + 1, row.v)
             ELSE Raise

get_differences(correct_fen, user_fen) ==
    LET correct_board == fen_to_board(correct_fen)
        user_board == fen_to_board(user_fen)
    IN  IF ~correct_board.ok \/ ~user_board.ok
        THEN Raise
        ELSE differences_loop(correct_board.v, user_board.v, 0, <<>>)

----------------------------------------------------------------------------
(* Inputs: placement strings, request bodies and CSV files *)

\* " w": a field after the placement part, as in the fixture of
\* src/test_app.py:17
FenFields == <<" ", "w">>

TwoPieces ==
    <<"r", "7", "/", "8", "/", "8", "/", "8", "/", "8", "/", "8", "/", "8",
      "/", "7", "K">>
ThreePieces ==
    <<"r", "7", "/", "8", "/", "8", "/", "8", "/", "8", "/", "8", "/", "8",
      "/", "6", "Q", "K">>
ShortBoard == <<"r", "7", "/", "8", "/", "8">>
\* eight ranks, the first expanding to seven cells
ShortRank ==
    <<"r", "6", "/", "8", "/", "8", "/", "8", "/", "8", "/", "8", "/", "8",
      "/", "7", "K">>

MaxSessions == 2
MaxRows == 2

\* the JSON body of POST /api/game/start: null, or an object with some keys
StartBody(keys, value) == [json |-> "object", keys |-> keys, piece_count |-> value]
NoBody == [json |-> "null", keys |-> {}, piece_count |-> JNull]
PieceCountValues ==
    {JInt(1), JInt(2), JInt(3), JInt(32), JInt(33), JInt(50),
     JStr(<<"i", "n", "v", "a", "l", "i", "d">>), JFloat(2), JBool(1), JNull}
StartBodies ==
    {NoBody, StartBody({}, JNull), StartBody({"other"}, JNull)}
    \cup {StartBody({"piece_count"}, v) : v \in PieceCountValues}

\* the JSON body of POST /api/game/submit
SubmitBody(keys, id, value) ==
    [json |-> "object", keys |-> keys, session_id |-> id, user_fen |-> value]
UserFens ==
    {JStr(ThreePieces \o FenFields), JStr(TwoPieces), JStr(ShortBoard),
     JStr(ShortRank), JInt(5)}
SubmitBodies(ids) ==
    {SubmitBody({"session_id"}, 1, JNull), SubmitBody({"user_fen"}, 0, JStr(TwoPieces))}
    \cup {SubmitBody({"session_id", "user_fen"}, id, v) : id \in ids, v \in UserFens}

\* the <int:piece_count> path segment of GET /api/positions/count/
CountArgs == {0, 1, 2, 3, 32, 33, 100}

\* the rows of a CSV file: each a sequence of fields
HeaderRow ==
    << <<"f", "e", "n">>,
       <<"e", "v", "a", "l", "u", "a", "t", "i", "o", "n">>,
       <<"p", "i", "e", "c", "e", "_", "c", "o", "u", "n", "t">> >>
Zero == <<"0", ".", "0">>
DataRows ==
    { << <<" ">> \o ThreePieces \o FenFields, Zero, <<"3">> >>,
      << TwoPieces, Zero, <<"3", "3">> >>,
      << TwoPieces, Zero >>,
      << TwoPieces, Zero, <<"a", "b", "c">> >> }

RECURSIVE SeqsUpTo(_, _)
SeqsUpTo(S, n) ==
    IF n = 0
    THEN {<<>>}
    ELSE LET shorter == SeqsUpTo(S, n - 1)
         IN  shorter \cup {Append(q, x) : q \in shorter, x \in S}

CsvFiles == {<<>>} \cup {<<HeaderRow>> \o rows : rows \in SeqsUpTo(DataRows, MaxRows)}

----------------------------------------------------------------------------
(* Tables and responses *)

\* ChessPosition(fen, evaluation, piece_count); the row's index is its id
ChessPosition(fen, evaluation, piece_count) ==
    [fen |-> fen, evaluation |-> evaluation, piece_count |-> piece_count]

\* GameSession with the score column defaulting to 0
GameSession_scored(piece_count, position_id) ==
    [piece_count |-> piece_count, position_id |-> position_id,
     user_answer |-> JNull, score |-> JInt(0)]

\* GameSession(piece_count, position_id): user_answer and score start NULL;
\* created_at is read by no handler modelled here
GameSession(piece_count, position_id) ==
    [piece_count |-> piece_count, position_id |-> position_id,
     user_answer |-> JNull, score |-> JNull]

\* Model.query.get(id): the row with that primary key, or None
Exists(table, id) == id \in 1..Len(table)

\* ChessPosition.to_dict
to_dict(id) ==
    [id |-> id, fen |-> positions[id].fen,
     evaluation |-> positions[id].evaluation,
     piece_count |-> positions[id].piece_count]

\* filter_by with >= for ==
filter_by_at_least(piece_count) ==
    {id \in 1..Len(positions) : positions[id].piece_count >= piece_count}

\* ChessPosition.query.filter_by(piece_count=piece_count).all(), as ids
filter_by(piece_count) ==
    {id \in 1..Len(positions) : positions[id].piece_count = piece_count}

\* the ids of a set in ascending order
RECURSIVE Ascending(_)
Ascending(ids) ==
    IF ids = {}
    THEN <<>>
    ELSE LET least == CHOOSE x \in ids : \A y \in ids : x <= y
         IN  <<least>> \o Ascending(ids \ {least})

\* {'error': message}; pieces is the number an f-string message names, else 0
ErrorFor(message, pieces) == [error |-> message, pieces |-> pieces]
Error(message) == ErrorFor(message, 0)
\* a response: what answered (the handler, or the loader script), the HTTP
\* status (the exit status of the script) and the JSON body
Respond(op, status, body) == <<op, status, body>>
Op(r) == r[1]
Status(r) == r[2]
Body(r) == r[3]

NoCall == [at |-> "none"]
NoResponse == Respond("none", 0, JNull)

Init ==
    /\ positions = <<>>
    /\ sessions = <<>>
    /\ response = NoResponse
    /\ call = NoCall
    /\ requests = <<>>

----------------------------------------------------------------------------
(* GET /api/positions/count/<int:piece_count>, src/app.py:93-106 *)

BadCount(piece_count) == piece_count < 2 \/ piece_count > 32

get_positions_by_count(piece_count) ==
    /\ response' =
          IF BadCount(piece_count)
          THEN Respond("count", 400, Error("Piece count must be between 2 and 32"))
          ELSE LET ids == Ascending(filter_by(piece_count))
               IN  Respond("count", 200, [k \in 1..Len(ids) |-> to_dict(ids[k])])
    /\ UNCHANGED <<positions, sessions, call, requests>>

----------------------------------------------------------------------------
(* POST /api/game/start, src/app.py:109-154 *)

\* not data or 'piece_count' not in data
MissingPieceCount(data) ==
    \/ data.json = "null"
    \/ data.keys = {}
    \/ "piece_count" \notin data.keys

\* InvalidPieceCount with the upper limit off by one
InvalidPieceCount_upto33(piece_count) ==
    \/ piece_count.t \notin {"int", "bool"}
    \/ piece_count.n < 2
    \/ piece_count.n > 33

\* not isinstance(piece_count, int) or piece_count < 2 or piece_count > 32;
\* a Python bool is an int
InvalidPieceCount(piece_count) ==
    \/ piece_count.t \notin {"int", "bool"}
    \/ piece_count.n < 2
    \/ piece_count.n > 32

start_game(data) ==
    /\ UNCHANGED <<positions, call, requests>>
    /\ IF MissingPieceCount(data)
       THEN /\ response' = Respond("start", 400, Error("piece_count is required"))
            /\ UNCHANGED sessions
       ELSE IF InvalidPieceCount(data.piece_count)
       THEN /\ response' = Respond("start", 400, Error("piece_count must be an integer between 2 and 32"))
            /\ UNCHANGED sessions
       ELSE IF filter_by(data.piece_count.n) = {}
       THEN /\ response' = Respond("start", 404, ErrorFor("No positions available for {piece_count} pieces", data.piece_count.n))
            /\ UNCHANGED sessions
       ELSE \E selected_position \in filter_by(data.piece_count.n) :
            /\ Len(sessions) < MaxSessions
            /\ sessions' = Append(sessions,
                   GameSession(data.piece_count.n, selected_position))
            /\ response' = Respond("start", 201, [session_id |-> Len(sessions) + 1,
                    fen |-> positions[selected_position].fen,
                    piece_count |-> data.piece_count.n])

----------------------------------------------------------------------------
(* POST /api/game/submit, src/app.py:157-198 *)

MissingSubmitFields(data) ==
    \/ data.json = "null"
    \/ data.keys = {}
    \/ "session_id" \notin data.keys
    \/ "user_fen" \notin data.keys

\* submit_found writing the first row of the table, whichever id was asked
submit_found_first_row(data, session_id, original_position) ==
    LET score == calculate_score(JStr(original_position.fen), data.user_fen)
        differences == get_differences(JStr(original_position.fen), data.user_fen)
    IN  IF ~score.ok \/ ~differences.ok
        THEN /\ response' = Respond("submit", 500, Error("Failed to submit answer"))
             /\ UNCHANGED sessions
        ELSE /\ sessions' = [sessions EXCEPT
                    ![1].user_answer = data.user_fen,
                    ![1].score = JInt(score.v)]
             /\ response' = Respond("submit", 200, [score |-> score.v,
                             total_pieces |-> sessions[session_id].piece_count,
                             correct_fen |-> original_position.fen,
                             user_fen |-> data.user_fen,
                             differences |-> differences.v])

\* submit_found with the answer assigned and committed before the scoring
submit_found_store_first(data, session_id, original_position) ==
    LET score == calculate_score(JStr(original_position.fen), data.user_fen)
        differences == get_differences(JStr(original_position.fen), data.user_fen)
    IN  IF ~score.ok \/ ~differences.ok
        THEN /\ response' = Respond("submit", 500, Error("Failed to submit answer"))
             /\ sessions' = [sessions EXCEPT ![session_id].user_answer = data.user_fen]
        ELSE /\ sessions' = [sessions EXCEPT
                    ![session_id].user_answer = data.user_fen,
                    ![session_id].score = JInt(score.v)]
             /\ response' = Respond("submit", 200, [score |-> score.v,
                             total_pieces |-> sessions[session_id].piece_count,
                             correct_fen |-> original_position.fen,
                             user_fen |-> data.user_fen,
                             differences |-> differences.v])

\* the handler after both rows were found: score, store, commit, respond;
\* an exception raised after the commit leaves the stored row as committed
submit_found(data, session_id, original_position) ==
    LET score == calculate_score(JStr(original_position.fen), data.user_fen)
        differences == get_differences(JStr(original_position.fen), data.user_fen)
    IN  IF ~score.ok
        THEN /\ response' = Respond("submit", 500, Error("Failed to submit answer"))
             /\ UNCHANGED sessions
        ELSE /\ sessions' = [sessions EXCEPT
                    ![session_id].user_answer = data.user_fen,
                    ![session_id].score = JInt(score.v)]
             /\ response' =
                   IF ~differences.ok
                   THEN Respond("submit", 500, Error("Failed to submit answer"))
                   ELSE Respond("submit", 200, [score |-> score.v,
                             total_pieces |-> sessions[session_id].piece_count,
                             correct_fen |-> original_position.fen,
                             user_fen |-> data.user_fen,
                             differences |-> differences.v])

\* submit_answer without the "if not session" check: session.position_id then
\* raises on None and the handler answers 500
submit_answer_unchecked(data) ==
    /\ UNCHANGED <<positions, call, requests>>
    /\ IF MissingSubmitFields(data)
       THEN /\ response' = Respond("submit", 400, Error("session_id and user_fen are required"))
            /\ UNCHANGED sessions
       ELSE IF ~Exists(sessions, data.session_id)
       THEN /\ response' = Respond("submit", 500, Error("Failed to submit answer"))
            /\ UNCHANGED sessions
       ELSE IF ~Exists(positions, sessions[data.session_id].position_id)
       THEN /\ response' = Respond("submit", 500, Error("Failed to submit answer"))
            /\ UNCHANGED sessions
       ELSE submit_found(data, data.session_id,
                         positions[sessions[data.session_id].position_id])

submit_answer(data) ==
    /\ UNCHANGED <<positions, call, requests>>
    /\ IF MissingSubmitFields(data)
       THEN /\ response' = Respond("submit", 400, Error("session_id and user_fen are required"))
            /\ UNCHANGED sessions
       ELSE IF ~Exists(sessions, data.session_id)
       THEN /\ response' = Respond("submit", 404, Error("Session not found"))
            /\ UNCHANGED sessions
       ELSE IF ~Exists(positions, sessions[data.session_id].position_id)
       THEN \* original_position is None: original_position.fen raises
            /\ response' = Respond("submit", 500, Error("Failed to submit answer"))
            /\ UNCHANGED sessions
       ELSE submit_found(data, data.session_id,
                         positions[sessions[data.session_id].position_id])

----------------------------------------------------------------------------
(* GET /api/stats, src/app.py:213-235 *)

\* GameSession.query.filter(GameSession.score.isnot(None)), as ids
scored == {id \in 1..Len(sessions) : sessions[id].score.t # "null"}

\* sum(...) over a list of integers
RECURSIVE sum(_)
sum(values) ==
    IF values = <<>> THEN 0 ELSE Head(values) + sum(Tail(values))

\* round(num / den * 100, 2) in hundredths: the nearest hundredth, a tie going
\* to the even one (Python rounds the exact binary value; the quotients of the
\* small integers here that tie are exact in binary)
round2(num, den) ==
    LET q == (10000 * num) \div den
        r == (10000 * num) % den
    IN  IF 2 * r < den THEN q
        ELSE IF 2 * r > den THEN q + 1
        ELSE IF q % 2 = 0 THEN q ELSE q + 1

\* the sums taken over every session, scored or not
every_session == 1..Len(sessions)

\* the sessions whose score and piece_count enter the two sums
stats_sessions == scored

get_stats ==
    LET total_games == Cardinality(scored)
        ids == Ascending(stats_sessions)
        total_correct == sum([k \in 1..Len(ids) |-> sessions[ids[k]].score.n])
        total_pieces == sum([k \in 1..Len(ids) |-> sessions[ids[k]].piece_count])
        avg_percentage ==
            IF total_games > 0 /\ total_pieces > 0
            THEN round2(total_correct, total_pieces)
            ELSE 0
    IN  /\ response' = Respond("stats", 200,
                               [total_games |-> total_games,
                                average_score |-> avg_percentage])
        /\ UNCHANGED <<positions, sessions, call, requests>>

----------------------------------------------------------------------------
(* load_positions_from_csv, src/load_data.py:5-34 *)

\* the for loop over the rows after the first: the positions added so far, or
\* the ValueError of int(row[2])
RECURSIVE load_rows(_, _)
load_rows(rows, added) ==
    IF rows = <<>>
    THEN Return(added)
    ELSE LET row == Head(rows)
         IN  IF Len(row) >= 3
             THEN LET piece_count == int(row[3])
                  IN  IF piece_count.ok
                      THEN load_rows(Tail(rows),
                               Append(added,
                                   ChessPosition(strip(row[1]), 0, piece_count.v)))
                      ELSE Raise
             ELSE load_rows(Tail(rows), added)

\* ChessPosition.query.delete(), the inserts and the one commit at the end: an
\* exception before the commit (next() on an empty file, int() on a field that
\* is no number) ends the script with the transaction rolled back
load_positions_from_csv(file) ==
    LET loaded == IF file = <<>> THEN Raise ELSE load_rows(Tail(file), <<>>)
    IN  /\ IF loaded.ok
           THEN /\ positions' = loaded.v
                /\ response' = Respond("load", 0,
                                       [count |-> Len(loaded.v)])
           ELSE /\ UNCHANGED positions
                /\ response' = Respond("load", 1, Error("Traceback"))
        /\ UNCHANGED <<sessions, call, requests>>

----------------------------------------------------------------------------

Next ==
    \/ \E file \in CsvFiles : load_positions_from_csv(file)
    \/ \E data \in StartBodies : start_game(data)
    \/ \E data \in SubmitBodies(1..(Len(sessions) + 1)) : submit_answer(data)
    \/ \E piece_count \in CountArgs : get_positions_by_count(piece_count)
    \/ get_stats

Spec == Init /\ [][Next]_vars

----------------------------------------------------------------------------
(* The board helpers and the submit handler on a range of boards: the two      *)
(* helpers are called on a pair of strings, then the pair is played through  *)
(* the handlers as src/test_app.py does (the fixture adds the position with  *)
(* piece_count 32, the test starts a game and submits).                      *)

RankStrings ==
    << <<"8">>,
       <<"r", "n", "b", "q", "k", "b", "n", "r">>,
       <<"4", "P", "2", "K">>,
       <<"p", "p", "p", "p", "p", "p", "p", "p">>,
       <<"1", "Q", "1", "q", "4">> >>
MaxRanks == 4

\* a placement string whose ranks 8 and 2 are the given ones, the others empty
Placement(top, low) ==
    top \o <<"/", "8", "/", "8", "/", "8", "/", "8", "/", "8", "/">> \o low
        \o <<"/", "8">>

Placements ==
    {Placement(RankStrings[a], RankStrings[b]) :
        a \in 1..MaxRanks, b \in 1..MaxRanks}

BoardFens ==
    {JStr(p) : p \in Placements} \cup {JStr(p \o FenFields) : p \in Placements}

FixturePieceCount == 32

BoardsInit ==
    /\ positions = <<>>
    /\ sessions = <<>>
    /\ response = NoResponse
    /\ requests = <<>>
    /\ \E correct_fen \in BoardFens \cup {JStr(ShortBoard)},
          user_fen \in BoardFens \cup {JStr(ShortBoard), JStr(ShortRank), JInt(5)} :
          call = [at |-> "args", correct_fen |-> correct_fen,
                  user_fen |-> user_fen, score |-> Raise, differences |-> Raise]

call_calculate_score ==
    /\ call.at = "args"
    /\ call' = [call EXCEPT !.at = "score",
                   !.score = calculate_score(call.correct_fen, call.user_fen)]
    /\ UNCHANGED <<positions, sessions, response, requests>>

call_get_differences ==
    /\ call.at = "score"
    /\ call' = [call EXCEPT !.at = "differences",
                   !.differences = get_differences(call.correct_fen, call.user_fen)]
    /\ UNCHANGED <<positions, sessions, response, requests>>

\* the fixture: db.session.add(ChessPosition(fen=..., piece_count=32)), commit
fixture ==
    /\ call.at = "differences"
    /\ positions = <<>>
    /\ positions' = <<ChessPosition(call.correct_fen.s, 0, FixturePieceCount)>>
    /\ UNCHANGED <<sessions, response, call, requests>>

\* test_complete_game_flow: one game is started, then the answer submitted
fixture_start ==
    /\ sessions = <<>>
    /\ positions # <<>>
    /\ start_game(StartBody({"piece_count"}, JInt(FixturePieceCount)))

fixture_submit ==
    /\ sessions # <<>>
    /\ submit_answer(SubmitBody({"session_id", "user_fen"}, 1, call.user_fen))

BoardsNext ==
    \/ call_calculate_score
    \/ call_get_differences
    \/ fixture
    \/ fixture_start
    \/ fixture_submit

SpecBoards == BoardsInit /\ [][BoardsNext]_vars

----------------------------------------------------------------------------
(* The program on CSV files whose piece_count column is in 2..32 but is not  *)
(* always the number of pieces of the row's board: the loader stores the     *)
(* column as it is written (src/load_data.py:20-26).                         *)

MiscountedRows ==
    { << ThreePieces, Zero, <<"2">> >>,
      << TwoPieces, Zero, <<"2">> >> }

\* the header line and one data row
MiscountedFiles == {<<HeaderRow, row>> : row \in MiscountedRows}

CatalogNext ==
    \/ \E file \in MiscountedFiles : load_positions_from_csv(file)
    \/ \E data \in StartBodies : start_game(data)
    \/ \E data \in SubmitBodies(1..(Len(sessions) + 1)) : submit_answer(data)
    \/ \E piece_count \in CountArgs : get_positions_by_count(piece_count)
    \/ get_stats

SpecCatalog == Init /\ [][CatalogNext]_vars

----------------------------------------------------------------------------
(* Two submit requests in flight at once, src/app.py:157-198.  Each request  *)
(* runs the handler in its own database session: the rows it reads are its   *)
(* own copies, the assignments of lines 181-182 change its copy only, and    *)
(* the commit of line 183 writes the two changed columns of the one row      *)
(* whose primary key the copy has.                                           *)

\* a request before its handler has run
Request(data) ==
    [data |-> data, at |-> "get_json", session |-> Raise, position |-> Raise,
     score |-> Raise, response |-> NoResponse]

\* the handler of request r returns: its response is sent
Answer(r, status, body) ==
    /\ requests' = [requests EXCEPT ![r].at = "done",
                       ![r].response = Respond("submit", status, body)]
    /\ response' = Respond("submit", status, body)

\* UPDATE game_sessions SET user_answer = ?, score = ? with no WHERE clause
commit_all_rows(table, id, row) ==
    [k \in 1..Len(table) |->
        [table[k] EXCEPT !.user_answer = row.user_answer, !.score = row.score]]

\* db.session.commit() with one changed GameSession:
\* UPDATE game_sessions SET user_answer = ?, score = ? WHERE id = ?
commit_row(table, id, row) ==
    [table EXCEPT ![id].user_answer = row.user_answer, ![id].score = row.score]

\* lines 162-174: the body is read and checked, the session row is fetched
submit_get_session(r) ==
    LET data == requests[r].data
    IN  /\ requests[r].at = "get_json"
        /\ UNCHANGED <<positions, sessions, call>>
        /\ IF MissingSubmitFields(data)
           THEN Answer(r, 400, Error("session_id and user_fen are required"))
           ELSE IF ~Exists(sessions, data.session_id)
           THEN Answer(r, 404, Error("Session not found"))
           ELSE /\ requests' = [requests EXCEPT ![r].at = "get_position",
                                   ![r].session = Return(sessions[data.session_id])]
                /\ UNCHANGED response

\* line 176: original_position = ChessPosition.query.get(session.position_id)
submit_get_position(r) ==
    LET position_id == requests[r].session.v.position_id
    IN  /\ requests[r].at = "get_position"
        /\ requests' = [requests EXCEPT ![r].at = "score",
                           ![r].position =
                               IF Exists(positions, position_id)
                               THEN Return(positions[position_id])
                               ELSE Raise]
        /\ UNCHANGED <<positions, sessions, response, call>>

\* line 179: score = calculate_score(original_position.fen, user_fen); an
\* exception goes to the handler's except clause
submit_score(r) ==
    LET original_position == requests[r].position
        score == IF original_position.ok
                 THEN calculate_score(JStr(original_position.v.fen),
                                      requests[r].data.user_fen)
                 ELSE Raise
    IN  /\ requests[r].at = "score"
        /\ UNCHANGED <<positions, sessions, call>>
        /\ IF score.ok
           THEN /\ requests' = [requests EXCEPT ![r].at = "store",
                                   ![r].score = score]
                /\ UNCHANGED response
           ELSE Answer(r, 500, Error("Failed to submit answer"))

\* lines 181-182: the assignments to the request's own copy of the row
submit_store(r) ==
    /\ requests[r].at = "store"
    /\ requests' = [requests EXCEPT ![r].at = "commit",
                       ![r].session.v.user_answer = requests[r].data.user_fen,
                       ![r].session.v.score = JInt(requests[r].score.v)]
    /\ UNCHANGED <<positions, sessions, response, call>>

\* line 183: db.session.commit()
submit_commit(r) ==
    /\ requests[r].at = "commit"
    /\ sessions' = commit_row(sessions, requests[r].data.session_id,
                              requests[r].session.v)
    /\ requests' = [requests EXCEPT ![r].at = "respond"]
    /\ UNCHANGED <<positions, response, call>>

\* lines 187-193: the response; session.piece_count is read again from the
\* table, the commit having expired the copy
submit_respond(r) ==
    LET data == requests[r].data
        original_position == requests[r].position.v
        differences == get_differences(JStr(original_position.fen), data.user_fen)
    IN  /\ requests[r].at = "respond"
        /\ UNCHANGED <<positions, sessions, call>>
        /\ IF differences.ok
           THEN Answer(r, 200, [score |-> requests[r].score.v,
                                total_pieces |-> sessions[data.session_id].piece_count,
                                correct_fen |-> original_position.fen,
                                user_fen |-> data.user_fen,
                                differences |-> differences.v])
           ELSE Answer(r, 500, Error("Failed to submit answer"))

\* the strings the two requests submit
ConcurrentFens == {JStr(ThreePieces \o FenFields), JStr(TwoPieces), JStr(ShortBoard)}

\* a loaded catalog, two games started on it, and one submit for each of them
\* received before either handler has run; call keeps the table as it was
ConcurrentInit ==
    /\ \E file \in CsvFiles :
          /\ file # <<>>
          /\ load_rows(Tail(file), <<>>).ok
          /\ positions = load_rows(Tail(file), <<>>).v
    /\ \E selected_position \in 1..2 :
          sessions = <<GameSession(3, 1), GameSession(3, selected_position)>>
    /\ response = NoResponse
    /\ call = [at |-> "concurrent", sessions |-> sessions]
    /\ \E first \in ConcurrentFens, second \in ConcurrentFens :
          requests = <<Request(SubmitBody({"session_id", "user_fen"}, 1, first)),
                       Request(SubmitBody({"session_id", "user_fen"}, 2, second))>>

ConcurrentNext ==
    \/ \E r \in 1..Len(requests) : submit_get_session(r)
    \/ \E r \in 1..Len(requests) : submit_get_position(r)
    \/ \E r \in 1..Len(requests) : submit_score(r)
    \/ \E r \in 1..Len(requests) : submit_store(r)
    \/ \E r \in 1..Len(requests) : submit_commit(r)
    \/ \E r \in 1..Len(requests) : submit_respond(r)

SpecConcurrent == ConcurrentInit /\ [][ConcurrentNext]_vars

----------------------------------------------------------------------------
(* Boards as the claims speak of them *)

Squares == (0..7) \X (0..7)

\* 8 ranks, each expanding to 8 cells
WellFormed(fen) ==
    LET board == fen_to_board(fen)
    IN  /\ board.ok
        /\ Len(board.v) = 8
        /\ \A r \in 1..8 : Len(board.v[r]) = 8

CellAt(board, sq) == board[sq[1] + 1][sq[2] + 1]

NonEmptyCells(board) == {sq \in Squares : CellAt(board, sq) # "."}
EmptyCells(board) == {sq \in Squares : CellAt(board, sq) = "."}
MatchingCells(correct_board, user_board) ==
    {sq \in Squares : /\ CellAt(correct_board, sq) = CellAt(user_board, sq)
                      /\ CellAt(correct_board, sq) # "."}
DifferingCells(correct_board, user_board) ==
    {sq \in Squares : CellAt(correct_board, sq) # CellAt(user_board, sq)}

FileNames == <<"a", "b", "c", "d", "e", "f", "g", "h">>
RankNames == <<"8", "7", "6", "5", "4", "3", "2", "1">>
Label(sq) == <<FileNames[sq[2] + 1], RankNames[sq[1] + 1]>>
RowMajor(sq) == 8 * sq[1] + sq[2]

\* both strings decode to one and the same well-formed board
SameBoard(correct_fen, user_fen) ==
    /\ WellFormed(correct_fen)
    /\ WellFormed(user_fen)
    /\ fen_to_board(correct_fen).v = fen_to_board(user_fen).v

\* C6: a well-formed board scored against itself gives the number of its
\* non-empty cells, 64 minus the number of its empty cells, and an empty
\* difference list; so a submit of the session's own reference placement
\* string, with or without fields after the placement, answers 200 with that
\* score and differences [].
C6_SelfScore ==
    SameBoard(call.correct_fen, call.user_fen) =>
        LET board == fen_to_board(call.correct_fen).v
            pieces == Cardinality(NonEmptyCells(board))
        IN  /\ call.at # "args" =>
                  /\ call.score.ok
                  /\ call.score.v = pieces
                  /\ call.score.v = 64 - Cardinality(EmptyCells(board))
            /\ call.at = "differences" =>
                  /\ call.differences.ok
                  /\ call.differences.v = <<>>
            /\ Op(response) = "submit" =>
                  /\ Status(response) = 200
                  /\ Body(response).score = pieces
                  /\ Body(response).differences = <<>>

C6_Witness ==
    /\ SameBoard(call.correct_fen, call.user_fen)
    /\ call.user_fen = call.correct_fen
    /\ \E p \in Placements : call.correct_fen.s = p \o FenFields
    /\ Op(response) = "submit"
    /\ Body(response).score = 10

\* C7: for well-formed boards the difference list holds one entry for each
\* coordinate whose cells differ and none for the others, in row-major order
\* (rank 8 first, file a first), each labelled file letter then rank number
\* 8 - i, with the reference cell as 'correct' and the submitted as 'user'.
C7_Differences ==
    (/\ call.at = "differences"
     /\ WellFormed(call.correct_fen)
     /\ WellFormed(call.user_fen)) =>
        LET d == call.differences.v
            correct_board == fen_to_board(call.correct_fen).v
            user_board == fen_to_board(call.user_fen).v
            differing == DifferingCells(correct_board, user_board)
            At(k) == CHOOSE sq \in Squares : Label(sq) = d[k].square
        IN  /\ call.differences.ok
            /\ Len(d) = Cardinality(differing)
            /\ \A sq \in differing : \E k \in 1..Len(d) : d[k].square = Label(sq)
            /\ \A k \in 1..Len(d) :
                  /\ \E sq \in differing : d[k].square = Label(sq)
                  /\ d[k].correct = CellAt(correct_board, At(k))
                  /\ d[k].user = CellAt(user_board, At(k))
                  /\ k < Len(d) => RowMajor(At(k)) < RowMajor(At(k + 1))

C7_Witness ==
    /\ call.at = "differences"
    /\ WellFormed(call.correct_fen)
    /\ WellFormed(call.user_fen)
    /\ Len(call.differences.v) = 16

----------------------------------------------------------------------------
(* Requests and stored rows as the claims speak of them *)

\* the request names a piece count that is an integer in 2..32
ValidStart(data) ==
    /\ data.json = "object"
    /\ "piece_count" \in data.keys
    /\ data.piece_count.t = "int"
    /\ data.piece_count.n \in 2..32

\* the catalog positions with piece count n
Catalog(n) == {p \in 1..Len(positions) : positions[p].piece_count = n}

\* the number of coordinates at which the stored answer of the session and
\* the board of the position it references hold the same non-empty value
ReferenceMatches(id) ==
    Cardinality(MatchingCells(
        fen_to_board(JStr(positions[sessions[id].position_id].fen)).v,
        fen_to_board(sessions[id].user_answer).v))

\* C1: every scored session's score is the number of coordinates at which
\* its stored answer and the board of the position it references now hold
\* the same non-empty value.
C1_ScoreMatchesReference ==
    \A id \in 1..Len(sessions) :
        sessions[id].score.t # "null" =>
            /\ sessions[id].position_id \in 1..Len(positions)
            /\ sessions[id].score.n = ReferenceMatches(id)

\* C2: start and list-by-count answer 400 to a piece count outside 2..32,
\* start also to a missing or non-integer piece_count, and a rejected start
\* creates no session and changes no stored state.
C2_Rejected ==
    [][/\ \A data \in StartBodies :
             (~ValidStart(data) /\ start_game(data)) =>
                 /\ Status(response') = 400
                 /\ UNCHANGED <<positions, sessions>>
       /\ \A n \in CountArgs :
             (n \notin 2..32 /\ get_positions_by_count(n)) =>
                 Status(response') = 400
       /\ (Op(response') = "start" /\ Status(response') = 400) =>
             UNCHANGED <<positions, sessions>>]_vars

C2_Witness ==
    /\ Op(response) = "start"
    /\ Status(response) = 400
    /\ Body(response) = Error("piece_count must be an integer between 2 and 32")
    /\ Catalog(3) # {}
    /\ sessions # <<>>

\* C3: a start with a valid piece count that no catalog position has answers
\* 404 and leaves the set of sessions as it was.
C3_NoPositions ==
    [][\A data \in StartBodies :
          (/\ ValidStart(data)
           /\ Catalog(data.piece_count.n) = {}
           /\ start_game(data)) =>
              /\ Status(response') = 404
              /\ sessions' = sessions]_vars

C3_Witness ==
    /\ Op(response) = "start"
    /\ Status(response) = 404
    /\ positions # <<>>
    /\ sessions # <<>>

\* C4: a start with a valid piece count n that some catalog position has
\* answers 201 and adds exactly one session: its id is fresh, its piece count
\* n, its answer and score null, its position a catalog position of piece
\* count n; the fen returned is that position's and the session_id the new id.
C4_Started ==
    [][\A data \in StartBodies :
          (/\ ValidStart(data)
           /\ Catalog(data.piece_count.n) # {}
           /\ start_game(data)) =>
              LET new == Len(sessions) + 1
              IN  /\ Status(response') = 201
                  /\ Len(sessions') = new
                  /\ \A id \in 1..Len(sessions) : sessions'[id] = sessions[id]
                  /\ Body(response').session_id = new
                  /\ Body(response').session_id \notin 1..Len(sessions)
                  /\ sessions'[new].piece_count = data.piece_count.n
                  /\ sessions'[new].user_answer = JNull
                  /\ sessions'[new].score = JNull
                  /\ sessions'[new].position_id \in Catalog(data.piece_count.n)
                  /\ Body(response').fen =
                         positions[sessions'[new].position_id].fen]_vars

C4_Witness ==
    /\ Op(response) = "start"
    /\ Status(response) = 201
    /\ Body(response).session_id = 2
    /\ sessions[2].position_id = 2
    /\ positions[1].piece_count # 3

\* C5: a submit whose session_id names no session answers 404, whatever the
\* user_fen, and leaves the sessions and the catalog as they were.
C5_UnknownSession ==
    [][\A data \in SubmitBodies(1..(Len(sessions) + 1)) :
          (/\ {"session_id", "user_fen"} \subseteq data.keys
           /\ data.session_id \notin 1..Len(sessions)
           /\ submit_answer(data)) =>
              /\ Status(response') = 404
              /\ UNCHANGED <<positions, sessions>>]_vars

C5_Witness ==
    /\ Op(response) = "submit"
    /\ Status(response) = 404
    /\ sessions # <<>>
    /\ positions # <<>>

\* the sums of the claim, over the sessions 1..n that have a score
RECURSIVE ScoreTotal(_)
ScoreTotal(n) ==
    IF n = 0
    THEN 0
    ELSE ScoreTotal(n - 1)
         + (IF sessions[n].score.t = "null" THEN 0 ELSE sessions[n].score.n)

RECURSIVE PieceTotal(_)
PieceTotal(n) ==
    IF n = 0
    THEN 0
    ELSE PieceTotal(n - 1)
         + (IF sessions[n].score.t = "null" THEN 0 ELSE sessions[n].piece_count)

ScoredSessions == {id \in 1..Len(sessions) : sessions[id].score # JNull}

\* C8 as stated: total_games counts the scored sessions; average_score (in
\* hundredths of a percent point) is 0 with no scored session and otherwise
\* exactly 100 * sum(score) / sum(piece_count) over the scored sessions.
C8_ExactAverage ==
    Op(response) = "stats" =>
        /\ Status(response) = 200
        /\ Body(response).total_games = Cardinality(ScoredSessions)
        /\ ScoredSessions = {} => Body(response).average_score = 0
        /\ ScoredSessions # {} =>
              Body(response).average_score * PieceTotal(Len(sessions))
                  = 10000 * ScoreTotal(Len(sessions))

\* C8 amended: the same, with average_score the value of
\* 100 * sum(score) / sum(piece_count) rounded to two decimal places: it lies
\* within half a hundredth of the quotient.
C8_RoundedAverage ==
    Op(response) = "stats" =>
        LET pieces == PieceTotal(Len(sessions))
            error == Body(response).average_score * pieces
                         - 10000 * ScoreTotal(Len(sessions))
        IN  /\ Status(response) = 200
            /\ Body(response).total_games = Cardinality(ScoredSessions)
            /\ ScoredSessions = {} => Body(response).average_score = 0
            /\ ScoredSessions # {} =>
                  /\ pieces > 0
                  /\ 2 * error <= pieces
                  /\ 2 * error >= 0 - pieces

C8_Witness ==
    /\ Op(response) = "stats"
    /\ Cardinality(ScoredSessions) = 1
    /\ Len(sessions) = 2
    /\ Body(response).average_score = 6667

\* C9 as stated: once a submit has set a session's answer and score no later
\* operation changes them, and no operation deletes a session.
C9_MutatedOnce ==
    [][\A id \in 1..Len(sessions) :
          /\ id \in 1..Len(sessions')
          /\ sessions[id].score # JNull =>
                /\ sessions'[id].user_answer = sessions[id].user_answer
                /\ sessions'[id].score = sessions[id].score]_vars

\* C9 amended: no operation deletes a session or changes its piece count or
\* position; its answer and score change only in a submit answered 200 that
\* names its id, which stores the submitted string and its score against the
\* referenced position, also when the session already had a score.
C9_MutatedBySubmitOnly ==
    [][\A id \in 1..Len(sessions) :
          /\ id \in 1..Len(sessions')
          /\ sessions'[id].piece_count = sessions[id].piece_count
          /\ sessions'[id].position_id = sessions[id].position_id
          /\ (\/ sessions'[id].user_answer # sessions[id].user_answer
              \/ sessions'[id].score # sessions[id].score) =>
                /\ Op(response') = "submit"
                /\ Status(response') = 200
                /\ Body(response').user_fen = sessions'[id].user_answer
                /\ Body(response').score = sessions'[id].score.n
                /\ \A other \in 1..Len(sessions) :
                      other # id => sessions'[other] = sessions[other]
                /\ \E data \in SubmitBodies({id}) : submit_answer(data)]_vars

C9_Witness ==
    /\ Len(sessions) = 2
    /\ sessions[1].score = JInt(3)
    /\ sessions[2].score = JInt(2)
    /\ sessions[1].position_id = sessions[2].position_id
    /\ Op(response) = "submit"
    /\ Status(response) = 200
    /\ Body(response).score = 2

\* C10: every catalog position has piece_count in 2..32, also after the
\* loader has replaced the catalog.
C10_PieceCountRange ==
    \A p \in 1..Len(positions) : positions[p].piece_count \in 2..32

----------------------------------------------------------------------------
(* Requests in flight as the claims speak of them *)

\* the table after one submit has run alone, from start to end, on the table
SerialSubmit(table, data) ==
    IF MissingSubmitFields(data) \/ ~Exists(table, data.session_id)
    THEN table
    ELSE LET position_id == table[data.session_id].position_id
         IN  IF ~Exists(positions, position_id)
             THEN table
             ELSE LET score == calculate_score(JStr(positions[position_id].fen),
                                               data.user_fen)
                  IN  IF score.ok
                      THEN [table EXCEPT
                               ![data.session_id].user_answer = data.user_fen,
                               ![data.session_id].score = JInt(score.v)]
                      ELSE table

AllAnswered == \A r \in 1..Len(requests) : requests[r].at = "done"

\* the request has committed its row
Committed(r) ==
    \/ requests[r].at = "respond"
    \/ requests[r].at = "done" /\ Status(requests[r].response) = 200

\* C11: two submits on different sessions whose steps interleave in any order
\* do not conflict: a committed write stays in the table whatever the other
\* request does meanwhile, and once both are answered each session holds the
\* answer and score of its own request (or is as it was, if that request was
\* refused), which is the table that running the two requests one after the
\* other gives, in either order.
C11_NoConflict ==
    Len(requests) = 2 =>
        LET first == requests[1].data
            second == requests[2].data
        IN  /\ first.session_id # second.session_id
            /\ \A r \in 1..2 :
                  Committed(r) =>
                      LET id == requests[r].data.session_id
                      IN  /\ sessions[id].user_answer = requests[r].data.user_fen
                          /\ sessions[id].score = JInt(requests[r].score.v)
                          /\ sessions[id].score =
                                 SerialSubmit(call.sessions, requests[r].data)[id].score
            /\ AllAnswered =>
                  /\ sessions = SerialSubmit(SerialSubmit(call.sessions, first), second)
                  /\ sessions = SerialSubmit(SerialSubmit(call.sessions, second), first)
                  /\ \A r \in 1..2 :
                        LET id == requests[r].data.session_id
                        IN  IF Status(requests[r].response) = 200
                            THEN /\ Body(requests[r].response).score = sessions[id].score.n
                                 /\ Body(requests[r].response).user_fen =
                                        sessions[id].user_answer
                            ELSE sessions[id] = call.sessions[id]

C11_Witness ==
    /\ Len(requests) = 2
    /\ AllAnswered
    /\ Status(requests[1].response) = 200
    /\ Status(requests[2].response) = 200
    /\ sessions[1].position_id = sessions[2].position_id
    /\ sessions[1].score = JInt(2)
    /\ sessions[2].score = JInt(3)

----------------------------------------------------------------------------
(* Refused submits as the claims speak of them *)

\* a string whose placement part has fewer than 8 ranks, or one of whose
\* first 8 ranks expands to fewer than 8 cells
MalformedBoard(fen) ==
    /\ fen.t = "str"
    /\ LET board == fen_to_board(fen)
       IN  /\ board.ok
           /\ \/ Len(board.v) < 8
              \/ \E r \in 1..Len(board.v) : r <= 8 /\ Len(board.v[r]) < 8

\* the submitted values that are malformed boards
MalformedUserFens == {fen \in UserFens : MalformedBoard(fen)}

\* the position the session references is not in the catalog
Dangling(id) == sessions[id].position_id \notin 1..Len(positions)

\* C12: a submit that does not answer 200 leaves every session's answer and
\* score as they were; a submit on an existing session with a malformed board
\* (fewer than 8 ranks, or a rank of fewer than 8 cells), or whose position is
\* no longer in the catalog, answers 500 with an error body and stores
\* nothing; so no submit stores the answer and score and then fails.
C12_RefusedSubmitStoresNothing ==
    [][/\ (Op(response') = "submit" /\ Status(response') # 200) =>
             /\ Status(response') \in {400, 404, 500}
             /\ sessions' = sessions
       /\ \A data \in SubmitBodies(1..Len(sessions)) :
             (/\ Op(response') = "submit"
              /\ {"session_id", "user_fen"} \subseteq data.keys
              /\ data.user_fen \in MalformedUserFens \/ Dangling(data.session_id)
              /\ submit_answer(data)) =>
                 /\ Status(response') = 500
                 /\ Body(response') = Error("Failed to submit answer")
                 /\ sessions' = sessions]_vars

C12_Witness ==
    /\ Op(response) = "submit"
    /\ Status(response) = 500
    /\ Len(sessions) = 1
    /\ ~Dangling(1)
    /\ sessions[1].score = JInt(3)

----------------------------------------------------------------------------

\* C13: every session that has a score has 0 <= score <= its piece_count, so
\* the percentage that stats reports (here in hundredths) never exceeds 100.
C13_ScoreWithinPieceCount ==
    /\ \A id \in 1..Len(sessions) :
          sessions[id].score.t # "null" =>
              /\ 0 <= sessions[id].score.n
              /\ sessions[id].score.n <= sessions[id].piece_count
    /\ Op(response) = "stats" => Body(response).average_score <= 10000

====
